---- MODULE Spec2Model ----
(***************************************************************************)
(* DocMistral: documents and images to Markdown through a remote OCR       *)
(* service.  The module models                                             *)
(*   - the converter (MistralDocumentProcessor) of src/docmistral.py,      *)
(*   - the batch walker and the command line (process_directory, main),    *)
(*   - the tool front-end of src/python/mcp_server.py.                     *)
(* Text is a sequence of tokens; paths are records of directory parts, a   *)
(* stem and a suffix; the remote service, the file system's failures and   *)
(* the traversal order are nondeterministic inputs of the actions.         *)
(***************************************************************************)
EXTENDS Integers, Sequences, FiniteSets, TLC

VARIABLES
    \* ---- command line / batch walker (src/docmistral.py) ----
    pc,             \* position of main: "start", "walk", "done"
    args,           \* parsed command line and environment
    inTree,         \* entries below the input root: path -> "file" | "dir"
    pending,        \* entries rglob has not yielded yet
    outDirs,        \* directories that exist below (and including) the output root
    outFiles,       \* files of the output tree: path -> text
    success_count,
    failed_count,
    exitCode,       \* process exit status once pc = "done"
    attempts,       \* input path -> number of convert_file calls made for it
    results,        \* input path -> outcome of its latest convert_file call
    last,           \* the latest convert_file call, with the tree before it
    \* ---- converter called on its own ----
    conv,           \* the latest convert call: path, inputs, outcome
    \* ---- tool front-end (src/python/mcp_server.py) ----
    processor,      \* the global processor, None until initialised
    envKey,         \* MISTRAL_API_KEY of the server's environment
    tmpFiles,       \* temporary files on disk
    nCalls,         \* operations served so far
    call            \* the latest operation: name, arguments, outcome

cliVars  == <<pc, args, inTree, pending, outDirs, outFiles, success_count,
              failed_count, exitCode, attempts, results, last>>
toolVars == <<processor, envKey, tmpFiles, nCalls, call>>
vars     == <<pc, args, inTree, pending, outDirs, outFiles, success_count,
              failed_count, exitCode, attempts, results, last, conv,
              processor, envKey, tmpFiles, nCalls, call>>

None == "<none>"

----------------------------------------------------------------------------
(* Bounds *)

\* pages in one service response
MaxPages == 2
\* entries below the input root
MaxFiles == 3
\* operations served by the tool front-end in one run
MaxCalls == 3

----------------------------------------------------------------------------
(* Text: a sequence of tokens *)

Lit(s)    == [k |-> "lit",    n |-> 0, s |-> s]
Md(s)     == [k |-> "md",     n |-> 0, s |-> s]
\* the literal "<!-- Page N -->", N rendered in decimal
Marker(n) == [k |-> "marker", n |-> n, s |-> ""]
NL        == [k |-> "nl",     n |-> 0, s |-> ""]

EmptyText == << >>

RECURSIVE Join(_, _)
\* sep.join(items): the items in order, sep between consecutive ones
Join(sep, items) ==
    IF items = << >> THEN << >>
    ELSE IF Len(items) = 1 THEN items[1]
    ELSE items[1] \o sep \o Join(sep, Tail(items))

----------------------------------------------------------------------------
(* Paths *)

MkPath(parts, stem, suffix) == [parts |-> parts, stem |-> stem, suffix |-> suffix]

\* str.lower() on the suffixes the model draws from
Lower(s) ==
    CASE s = ".PDF"  -> ".pdf"
      [] s = ".PNG"  -> ".png"
      [] s = ".Docx" -> ".docx"
      [] s = ".JPG"  -> ".jpg"
      [] OTHER       -> s

\* no path: an absent --file, a path string the model does not know
NoPath == MkPath(<< >>, "", "")

\* Path.with_suffix
WithSuffix(p, suffix) == [p EXCEPT !.suffix = suffix]

\* Path.relative_to(root), for p below root
RelativeTo(p, root) ==
    [p EXCEPT !.parts = SubSeq(p.parts, Len(root) + 1, Len(p.parts))]

\* root / rel
Under(root, rel) == [rel EXCEPT !.parts = root \o rel.parts]

\* Path.parent of a file path: its directory
Parent(p) == p.parts

\* the directory and every ancestor of it, outermost first
Ancestors(dir) == [i \in 1..Len(dir) |-> SubSeq(dir, 1, i)]

----------------------------------------------------------------------------
(* The remote OCR service, as the converter sees it *)

Fragments == {"A", "B"}

Page(index, markdown) == [index |-> index, markdown |-> markdown]

PageSet == {Page(i, m) : i \in 0..(MaxPages - 1), m \in Fragments}

RECURSIVE SeqsUpTo(_, _)
SeqsUpTo(S, n) ==
    IF n = 0 THEN {<< >>}
    ELSE LET shorter == SeqsUpTo(S, n - 1)
         IN  shorter \cup {Append(q, x) : q \in {r \in shorter : Len(r) = n - 1}, x \in S}

ServiceError == [ok |-> FALSE, pages |-> << >>]
ServiceOk(pages) == [ok |-> TRUE, pages |-> pages]

\* every answer of the service: an error, or pages in any order and number
Responses == {ServiceError} \cup {ServiceOk(ps) : ps \in SeqsUpTo(PageSet, MaxPages)}

\* the answers drawn in a run of the command line: an error, no page, one page
ShortResponses == {ServiceError, ServiceOk(<< >>), ServiceOk(<<Page(0, "A")>>)}

----------------------------------------------------------------------------
(* MistralDocumentProcessor.convert_with_mistral_document_ai *)

document_formats == {".pdf", ".pptx", ".docx"}
image_formats    == {".png", ".jpg", ".jpeg", ".gif", ".bmp", ".avif"}

mime_types(suffix) ==
    CASE suffix = ".pdf"  -> "application/pdf"
      [] suffix = ".pptx" -> "application/vnd.openxmlformats-officedocument.presentationml.presentation"
      [] suffix = ".docx" -> "application/vnd.openxmlformats-officedocument.wordprocessingml.document"
      [] OTHER            -> "application/octet-stream"

\* __init__: a processor exists only with a client built from a non-empty key
\* (Mistral(api_key=...) only stores the key and is taken to succeed)
NewProcessor(key) == [mistral_client |-> "client", key |-> key]

\* the global "processor = None" of the tool front-end
NoProcessor == [mistral_client |-> None, key |-> None]

Raised(error, reads, requests) ==
    [error |-> error, md |-> EmptyText, reads |-> reads, requests |-> requests]
Returned(md, reads, requests) ==
    [error |-> None, md |-> md, reads |-> reads, requests |-> requests]

DocumentRequest(suffix) ==
    [type |-> "document_url", mime |-> mime_types(suffix), include_image_base64 |-> TRUE]
ImageRequest ==
    [type |-> "image_base64", mime |-> None, include_image_base64 |-> FALSE]

\* a variant that numbers the pages from zero
PageContentZeroBased(page) == <<Marker(page.index), NL, Md(page.markdown)>>

\* one page of a document: f"<!-- Page {page.index + 1} -->\n{page.markdown}"
PageContent(page) == <<Marker(page.index + 1), NL, Md(page.markdown)>>

\* "\n\n".join(all_content), all_content in the order of ocr_response.pages
DocumentMarkdown(pages) ==
    Join(<<NL, NL>>, [i \in 1..Len(pages) |-> PageContent(pages[i])])

\* pages[0].markdown, or "" without pages
ImageMarkdown(pages) ==
    IF pages # << >> THEN <<Md(pages[1].markdown)>> ELSE EmptyText

\* a variant that reads the file before it looks at the suffix
ConvertReadsFirst(proc, path, readable, resp) ==
    IF ~readable THEN Raised("read_failed", 1, << >>)
    ELSE IF Lower(path.suffix) \in document_formats
    THEN LET req == DocumentRequest(Lower(path.suffix))
         IN  IF ~resp.ok THEN Raised("service_failed", 1, <<req>>)
             ELSE Returned(DocumentMarkdown(resp.pages), 1, <<req>>)
    ELSE IF Lower(path.suffix) \in image_formats
    THEN IF ~resp.ok THEN Raised("service_failed", 1, <<ImageRequest>>)
         ELSE Returned(ImageMarkdown(resp.pages), 1, <<ImageRequest>>)
    ELSE Raised("unsupported_format", 1, << >>)

\* proc: the processor; path: the file; readable: open/read succeeds;
\* resp: what the service answers if it is asked
Convert(proc, path, readable, resp) ==
    IF proc.mistral_client = None
    THEN Raised("client_not_initialized", 0, << >>)
    ELSE IF Lower(path.suffix) \in document_formats
    THEN IF ~readable THEN Raised("read_failed", 1, << >>)
         ELSE LET req == DocumentRequest(Lower(path.suffix))
              IN  IF ~resp.ok THEN Raised("service_failed", 1, <<req>>)
                  ELSE Returned(DocumentMarkdown(resp.pages), 1, <<req>>)
    ELSE IF Lower(path.suffix) \in image_formats
    THEN IF ~readable THEN Raised("read_failed", 1, << >>)
         ELSE LET req == ImageRequest
              IN  IF ~resp.ok THEN Raised("service_failed", 1, <<req>>)
                  ELSE Returned(ImageMarkdown(resp.pages), 1, <<req>>)
    ELSE Raised("unsupported_format", 0, << >>)

----------------------------------------------------------------------------
(* The file system the converter writes to *)

FileSystem(dirs, files) == [dirs |-> dirs, files |-> files]

\* Path.mkdir(parents=True, exist_ok=True) on dir.  failAt = 0: every missing
\* ancestor is created; failAt = L > 0: creating ancestor L raises if it is
\* missing, the ancestors above it having been created.
Mkdir(dirs, dir, failAt) ==
    LET anc    == Ancestors(dir)
        fails  == failAt \in 1..Len(anc) /\ anc[failAt] \notin dirs
        upto   == IF fails THEN failAt - 1 ELSE Len(anc)
    IN  [ok |-> ~fails, dirs |-> dirs \cup {anc[i] : i \in 1..upto}]

\* open(path, 'w') then f.write(text).  open truncates before anything is
\* written, so a failing write leaves an empty file.
WriteText(files, path, text, outcome) ==
    LET put(t) == [p \in (DOMAIN files) \cup {path} |-> IF p = path THEN t ELSE files[p]]
    IN  CASE outcome = "open_fails"  -> [ok |-> FALSE, files |-> files]
          [] outcome = "write_fails" -> [ok |-> FALSE, files |-> put(EmptyText)]
          [] OTHER                   -> [ok |-> TRUE,  files |-> put(text)]

WriteOutcomes == {"ok", "open_fails", "write_fails"}

\* what the environment decides during one convert_file call
FileEnv(readable, resp, failAt, write) ==
    [readable |-> readable, resp |-> resp, failAt |-> failAt, write |-> write]

----------------------------------------------------------------------------
(* MistralDocumentProcessor.convert_file *)

\* the body of the try block: the exception it raises (None: it reaches
\* "return True"), the file system it leaves, and what convert did
ConvertFileTry(proc, fs, input_path, output_path, env) ==
    LET c == Convert(proc, input_path, env.readable, env.resp)
    IN  IF c.error # None
        THEN [raised |-> c.error, fs |-> fs, conv |-> c]
        ELSE LET made == Mkdir(fs.dirs, Parent(output_path), env.failAt)
             IN  IF ~made.ok
                 THEN [raised |-> "mkdir_failed", fs |-> FileSystem(made.dirs, fs.files),
                       conv |-> c]
                 ELSE LET w == WriteText(fs.files, output_path, c.md, env.write)
                      IN  [raised |-> IF w.ok THEN None ELSE "write_failed",
                           fs |-> FileSystem(made.dirs, w.files), conv |-> c]

\* a variant that reports success once the conversion succeeded
ConvertFileIgnoresWrite(proc, fs, input_path, output_path, env) ==
    LET t == ConvertFileTry(proc, fs, input_path, output_path, env)
    IN  [ret |-> t.conv.error = None, raised |-> None, fs |-> t.fs, conv |-> t.conv]

\* a variant that prepares the output directory before converting
ConvertFileMkdirFirst(proc, fs, input_path, output_path, env) ==
    LET made == Mkdir(fs.dirs, Parent(output_path), env.failAt)
        t    == ConvertFileTry(proc, FileSystem(made.dirs, fs.files), input_path,
                               output_path, env)
    IN  [ret |-> made.ok /\ t.raised = None, raised |-> None, fs |-> t.fs, conv |-> t.conv]

\* try: ... return True / except Exception: return False.
\* ret: the return value; raised: the exception that leaves the call
ConvertFile(proc, fs, input_path, output_path, env) ==
    LET t == ConvertFileTry(proc, fs, input_path, output_path, env)
    IN  [ret |-> t.raised = None, raised |-> None, fs |-> t.fs, conv |-> t.conv]

----------------------------------------------------------------------------
(* Tool front-end: arguments, temporary files, replies *)

\* a value of the wrong type where a string is expected
NonString == "<non-string>"

\* bool(value) of an argument
Truthy(v) == v \notin {None, ""}

\* files the tool is pointed at: the path string, parsed, and whether it exists
PathOf(file_path) ==
    CASE file_path = "/d/doc.pdf"     -> MkPath(<<"d">>, "doc", ".pdf")
      [] file_path = "/d/notes.txt"   -> MkPath(<<"d">>, "notes", ".txt")
      [] file_path = "/d/missing.pdf" -> MkPath(<<"d">>, "missing", ".pdf")
      [] OTHER                        -> NoPath

ExistingFiles == {"/d/doc.pdf", "/d/notes.txt"}

\* Path(file_name).suffix
SuffixOf(file_name) ==
    CASE file_name = "scan.PDF" -> ".PDF"
      [] file_name = "scan.txt" -> ".txt"
      [] OTHER                  -> ""

ValidBase64   == "QQ=="
InvalidBase64 == "Q"

FilePathValues == {None, "", NonString, "/d/doc.pdf", "/d/notes.txt", "/d/missing.pdf"}
Base64Values   == {None, ValidBase64, InvalidBase64}
FileNameValues == {None, "scan.PDF", "scan.txt"}

MkArguments(file_path, base64_content, file_name) ==
    [file_path |-> file_path, base64_content |-> base64_content, file_name |-> file_name]

NoArguments == MkArguments(None, None, None)

\* the argument dictionaries of process_document calls
DocumentArguments ==
    {MkArguments(fp, None, None) : fp \in FilePathValues}
    \cup {MkArguments(None, b, fnm) : b \in Base64Values, fnm \in FileNameValues}
    \cup {MkArguments("/d/doc.pdf", ValidBase64, "scan.txt")}

\* the argument dictionaries handed to the other tools
OtherArguments == {NoArguments, MkArguments("/d/doc.pdf", None, None)}

ToolNames == {"process_document", "get_supported_formats", "no_such_tool"}

\* what the environment decides during one operation
ToolEnv(tmp_created, tmp_written, readable, resp) ==
    [tmp_created |-> tmp_created, tmp_written |-> tmp_written,
     readable |-> readable, resp |-> resp]

\* (an input the operation never reaches is left at its first value)
ToolEnvs ==
    {ToolEnv(TRUE, TRUE, TRUE, resp) : resp \in ShortResponses}
    \cup {ToolEnv(TRUE, TRUE, FALSE, ServiceError),
          ToolEnv(TRUE, FALSE, FALSE, ServiceError),
          ToolEnv(FALSE, FALSE, FALSE, ServiceError)}

\* tempfile.NamedTemporaryFile(suffix=..., delete=False): a fresh file
TempFile(id, suffix) == [id |-> id, suffix |-> suffix]
TempPath(t) == MkPath(<<"tmp">>, "tmp", t.suffix)

Err(code) == [k |-> "err", n |-> 0, s |-> code]

\* TextContent(type="text", text=...)
TextContent(text) == [type |-> "text", text |-> text]

SuccessPrefix == Lit("Document processed successfully:\n\n")
FailedPrefix  == Lit("Processing failed: ")

\* what a handler did: the exception leaving it (None: it returned), the
\* blocks it returned, the temporary files on disk afterwards
Handled(raised, blocks, tmp) == [raised |-> raised, blocks |-> blocks, tmp |-> tmp]

ProcessingFailed(code, tmp) == Handled(None, <<TextContent(<<FailedPrefix, Err(code)>>)>>, tmp)
ProcessedOk(md, tmp) == Handled(None, <<TextContent(<<SuccessPrefix>> \o md)>>, tmp)

----------------------------------------------------------------------------
(* MistralDocumentProcessor.perform_ocr_with_mistral *)

\* the text returned and the temporary files on disk afterwards; id names
\* the temporary file this call creates
PerformOcr(proc, tmp, id, env) ==
    LET t == TempFile(id, ".png")
    IN  IF proc.mistral_client = None THEN [text |-> EmptyText, tmp |-> tmp]
        ELSE IF ~env.tmp_created THEN [text |-> EmptyText, tmp |-> tmp]
        \* image.save, open/read or chat.complete raises: except returns ""
        ELSE IF ~env.tmp_written \/ ~env.readable \/ ~env.resp.ok
        THEN [text |-> EmptyText, tmp |-> tmp \cup {t}]
        \* os.unlink, then response.choices[0].message.content
        ELSE IF env.resp.pages = << >> THEN [text |-> EmptyText, tmp |-> tmp]
        ELSE [text |-> <<Md(env.resp.pages[1].markdown)>>, tmp |-> tmp]

----------------------------------------------------------------------------
(* mcp_server: initialize_processor, the handlers, call_tool *)

\* initialize_processor: the new processor, or the exception it raises
InitializeProcessor(key) ==
    IF ~Truthy(key)
    THEN [raised |-> "MISTRAL_API_KEY environment variable is required",
          processor |-> NoProcessor]
    ELSE [raised |-> None, processor |-> NewProcessor(key)]

formats_info == <<Lit("Supported File Formats: ... Limitations: ... Features: ...")>>

\* a variant whose text is the bare list of suffixes
handle_get_supported_formats_short ==
    Handled(None, <<TextContent(<<Lit("Supported File Formats:")>>)>>, {})

handle_get_supported_formats == Handled(None, <<TextContent(formats_info)>>, {})

handle_process_document(proc, tmp, id, arguments, env) ==
    LET file_path      == arguments.file_path
        base64_content == arguments.base64_content
        file_name      == arguments.file_name
    IN  IF Truthy(file_path)
        THEN IF file_path = NonString
             THEN Handled("TypeError", << >>, tmp)                \* Path(file_path)
             ELSE IF file_path \notin ExistingFiles
             THEN Handled(None, <<TextContent(<<Lit("File not found: "), Lit(file_path)>>)>>, tmp)
             ELSE LET c == Convert(proc, PathOf(file_path), env.readable, env.resp)
                  IN  IF c.error # None THEN ProcessingFailed(c.error, tmp)
                      ELSE ProcessedOk(c.md, tmp)
        ELSE IF Truthy(base64_content) /\ Truthy(file_name)
        THEN LET file_extension == Lower(SuffixOf(file_name))
                 t == TempFile(id, file_extension)
             IN  IF ~env.tmp_created THEN ProcessingFailed("tempfile_failed", tmp)
                 \* inside the with block: the file exists and is not removed
                 ELSE IF base64_content # ValidBase64
                 THEN ProcessingFailed("Incorrect padding", tmp \cup {t})
                 ELSE IF ~env.tmp_written
                 THEN ProcessingFailed("write_failed", tmp \cup {t})
                 \* try: convert ... finally: unlink
                 ELSE LET c == Convert(proc, TempPath(t), env.readable, env.resp)
                      IN  IF c.error # None THEN ProcessingFailed(c.error, tmp)
                          ELSE ProcessedOk(c.md, tmp)
        ELSE Handled(None,
                 <<TextContent(<<Lit("Either file_path or (base64_content + file_name) is required")>>)>>,
                 tmp)

\* the dispatch inside call_tool's try block
Dispatch(proc, tmp, id, name, arguments, env) ==
    IF name = "process_document"
    THEN handle_process_document(proc, tmp, id, arguments, env)
    ELSE IF name = "get_supported_formats"
    THEN [handle_get_supported_formats EXCEPT !.tmp = tmp]
    ELSE Handled(None, <<TextContent(<<Lit("Unknown tool: "), Lit(name)>>)>>, tmp)

\* what call_tool did: the exception leaving it, the blocks returned, the
\* global processor and the temporary files afterwards, whether a handler
\* ran, how often initialize_processor was called
Called(raised, blocks, proc, tmp, ran, inits) ==
    [raised |-> raised, blocks |-> blocks, processor |-> proc, tmp |-> tmp, ran |-> ran,
     inits |-> inits]

\* initialize_processor if the global is unset; inits counts the attempt
EnsureProcessor(proc, key) ==
    IF proc = NoProcessor
    THEN InitializeProcessor(key) @@ [inits |-> 1]
    ELSE [raised |-> None, processor |-> proc, inits |-> 0]

\* a variant that goes on to the dispatch after a failed initialisation
call_tool_runs_unset(proc, key, tmp, id, name, arguments, env) ==
    LET init == EnsureProcessor(proc, key)
        h    == Dispatch(init.processor, tmp, id, name, arguments, env)
    IN  IF h.raised # None
        THEN Called(None, <<TextContent(<<Lit("Error: "), Err(h.raised)>>)>>,
                    init.processor, h.tmp, TRUE, init.inits)
        ELSE Called(None, h.blocks, init.processor, h.tmp, TRUE, init.inits)

\* a variant without the except clause around the dispatch
call_tool_no_except(proc, key, tmp, id, name, arguments, env) ==
    LET init == EnsureProcessor(proc, key)
    IN  IF init.raised # None
        THEN Called(None, <<TextContent(<<Lit("Error initializing processor: "), Err(init.raised)>>)>>,
                    proc, tmp, FALSE, init.inits)
        ELSE LET h == Dispatch(init.processor, tmp, id, name, arguments, env)
             IN  Called(h.raised, h.blocks, init.processor, h.tmp, TRUE, init.inits)

call_tool(proc, key, tmp, id, name, arguments, env) ==
    LET init == EnsureProcessor(proc, key)
    IN  IF init.raised # None
        THEN Called(None, <<TextContent(<<Lit("Error initializing processor: "), Err(init.raised)>>)>>,
                    proc, tmp, FALSE, init.inits)
        ELSE LET h == Dispatch(init.processor, tmp, id, name, arguments, env)
             IN  IF h.raised # None
                 THEN Called(None, <<TextContent(<<Lit("Error: "), Err(h.raised)>>)>>,
                             init.processor, h.tmp, TRUE, init.inits)
                 ELSE Called(None, h.blocks, init.processor, h.tmp, TRUE, init.inits)

NoToolCall ==
    [name |-> None, id |-> 0, arguments |-> NoArguments,
     env |-> ToolEnv(FALSE, FALSE, FALSE, ServiceError), before |-> NoProcessor,
     key |-> None, inits |-> 0,
     raised |-> None, reply |-> << >>, ran |-> FALSE]

----------------------------------------------------------------------------
(* Command line and batch walker: the world main() runs in *)

input_dir  == <<"in">>
output_dir == <<"out">>

TreeDirs     == {input_dir, input_dir \o <<"sub">>}
TreeStems    == {"a"}
TreeSuffixes == {".pdf", ".PNG", ".txt"}
TreePaths    == {MkPath(d, s, x) : d \in TreeDirs, s \in TreeStems, x \in TreeSuffixes}

\* an entry is a regular file, or a directory that happens to carry a suffix
Kinds == {"file", "dir"}

\* the input trees: at most MaxFiles entries, at most one of them a directory,
\* and that one named like a document (any other directory is skipped as a
\* file with an unsupported suffix is)
Trees ==
    LET all  == UNION {[S -> Kinds] : S \in {T \in SUBSET TreePaths : Cardinality(T) <= MaxFiles}}
        dirs(t) == {p \in DOMAIN t : t[p] = "dir"}
    IN  {t \in all : /\ Cardinality(dirs(t)) <= 1
                     /\ \A p \in dirs(t) : p.suffix = ".pdf"}

EmptyTree == << >>

OldText == <<Md("old")>>

\* output trees left by an earlier run
OldOutputs ==
    { FileSystem({}, << >>),
      FileSystem({output_dir}, [p \in {MkPath(output_dir, "a", ".md")} |-> OldText]) }

\* the --mistral-api-key flag and MISTRAL_API_KEY, as (flag, variable)
Credentials == {<<None, None>>, <<None, "">>, <<"k", None>>, <<None, "e">>}

\* args.mistral_api_key or os.getenv('MISTRAL_API_KEY')
ApiKey(a) == IF a.mistral_api_key \notin {None, ""} THEN a.mistral_api_key ELSE a.env_key

\* not mistral_api_key
KeyMissing(key) == key \in {None, ""}

\* Path.name
Name(p) == [p EXCEPT !.parts = << >>]

supported_extensions ==
    {".pdf", ".pptx", ".docx", ".png", ".jpg", ".jpeg", ".gif", ".bmp", ".avif"}

\* a variant of the filter that compares the suffix as spelled
MatchesNoLower(kind, path) == kind = "file" /\ path.suffix \in supported_extensions

\* file_path.is_file() and file_path.suffix.lower() in supported_extensions
Matches(kind, path) == kind = "file" /\ Lower(path.suffix) \in supported_extensions

\* output_dir / relative_path.with_suffix('.md')
MirrorPath(file_path) ==
    Under(output_dir, WithSuffix(RelativeTo(file_path, input_dir), ".md"))

\* Path(args.output) / input_path.with_suffix('.md').name
SingleOutputPath(input_path) == Under(output_dir, Name(WithSuffix(input_path, ".md")))

\* a variant that exits zero after any batch
BatchExitZero(failed) == 0

\* the exit status after a batch: sys.exit(1) if failed_count > 0
BatchExit(failed) == IF failed > 0 THEN 1 ELSE 0

\* the inputs of one convert_file call on an entry of the given kind
\* (an input the call never reaches is left at its first value)
FileEnvs(kind, output_path) ==
    LET depth == Len(Parent(output_path))
    IN  {FileEnv(FALSE, ServiceError, 0, "ok")}
        \cup (IF kind # "file" THEN {}
              ELSE {FileEnv(TRUE, ServiceError, 0, "ok")}
                   \cup {FileEnv(TRUE, resp, failAt, "ok") :
                            resp \in ShortResponses \ {ServiceError}, failAt \in 1..depth}
                   \cup {FileEnv(TRUE, resp, 0, w) :
                            resp \in ShortResponses \ {ServiceError}, w \in WriteOutcomes})

NoCall ==
    [called |-> FALSE, input |-> NoPath, output |-> NoPath, ret |-> FALSE,
     raised |-> None, conv |-> Raised(None, 0, << >>),
     env |-> FileEnv(FALSE, ServiceError, 0, "ok"), pre |-> FileSystem({}, << >>)]

NoResult == [ret |-> FALSE, md |-> EmptyText]

NoConv == [called |-> FALSE, path |-> NoPath, readable |-> FALSE,
           resp |-> ServiceError, out |-> Raised(None, 0, << >>)]


\* the variables the command line never touches
IdleOthers == UNCHANGED <<conv, processor, envKey, tmpFiles, nCalls, call>>

CliInit ==
    /\ pc = "start"
    /\ \E cred \in Credentials, f \in {NoPath} \cup TreePaths, ex \in BOOLEAN :
          args = [mistral_api_key |-> cred[1], env_key |-> cred[2], file |-> f,
                  input_exists |-> ex]
    /\ inTree \in Trees
    /\ (~args.input_exists => inTree = EmptyTree)
    /\ (args.file # NoPath => args.input_exists /\ DOMAIN inTree \subseteq {args.file})
    /\ pending = {}
    /\ \E fs \in OldOutputs : outDirs = fs.dirs /\ outFiles = fs.files
    /\ success_count = 0
    /\ failed_count = 0
    /\ exitCode = 0
    /\ attempts = [p \in TreePaths |-> 0]
    /\ results = [p \in TreePaths |-> NoResult]
    /\ last = NoCall
    /\ conv = NoConv
    /\ processor = NoProcessor
    /\ envKey = None
    /\ tmpFiles = {}
    /\ nCalls = 0
    /\ call = NoToolCall

\* one call processor.convert_file(input_path, output_path), and the
\* bookkeeping of what it did
CallConvertFile(input_path, output_path, env) ==
    LET proc == NewProcessor(ApiKey(args))
        pre  == FileSystem(outDirs, outFiles)
        r    == ConvertFile(proc, pre, input_path, output_path, env)
    IN  /\ outDirs' = r.fs.dirs
        /\ outFiles' = r.fs.files
        /\ attempts' = [attempts EXCEPT ![input_path] = @ + 1]
        /\ results' = [results EXCEPT ![input_path] = [ret |-> r.ret, md |-> r.conv.md]]
        /\ last' = [called |-> TRUE, input |-> input_path, output |-> output_path,
                    ret |-> r.ret, raised |-> r.raised, conv |-> r.conv,
                    env |-> env, pre |-> pre]

Exit(code) == pc' = "done" /\ exitCode' = code

\* main: no credential
MainNoKey ==
    /\ pc = "start"
    /\ KeyMissing(ApiKey(args))
    /\ Exit(1)
    /\ UNCHANGED <<args, inTree, pending, outDirs, outFiles, success_count,
                   failed_count, attempts, results, last>>
    /\ IdleOthers

\* main --file: the file does not exist
MainFileNotFound ==
    /\ pc = "start"
    /\ ~KeyMissing(ApiKey(args))
    /\ args.file # NoPath
    /\ args.file \notin DOMAIN inTree
    /\ Exit(1)
    /\ UNCHANGED <<args, inTree, pending, outDirs, outFiles, success_count,
                   failed_count, attempts, results, last>>
    /\ IdleOthers

\* main --file: convert the one file
MainSingleFile ==
    /\ pc = "start"
    /\ ~KeyMissing(ApiKey(args))
    /\ args.file # NoPath
    /\ args.file \in DOMAIN inTree
    /\ LET output_path == SingleOutputPath(args.file)
       IN  \E env \in FileEnvs(inTree[args.file], output_path) :
              /\ CallConvertFile(args.file, output_path, env)
              /\ Exit(IF last'.ret THEN 0 ELSE 1)
    /\ UNCHANGED <<args, inTree, pending, success_count, failed_count>>
    /\ IdleOthers

\* main, directory mode: the input directory does not exist
MainInputNotFound ==
    /\ pc = "start"
    /\ ~KeyMissing(ApiKey(args))
    /\ args.file = NoPath
    /\ ~args.input_exists
    /\ Exit(1)
    /\ UNCHANGED <<args, inTree, pending, outDirs, outFiles, success_count,
                   failed_count, attempts, results, last>>
    /\ IdleOthers

\* main, directory mode: enter process_directory
MainBatchStart ==
    /\ pc = "start"
    /\ ~KeyMissing(ApiKey(args))
    /\ args.file = NoPath
    /\ args.input_exists
    /\ pc' = "walk"
    /\ pending' = DOMAIN inTree
    /\ success_count' = 0
    /\ failed_count' = 0
    /\ UNCHANGED <<args, inTree, outDirs, outFiles, exitCode, attempts, results, last>>
    /\ IdleOthers

\* process_directory: rglob yields a matching file, in any order
WalkConvert ==
    /\ pc = "walk"
    /\ \E file_path \in pending :
          /\ Matches(inTree[file_path], file_path)
          /\ LET output_path == MirrorPath(file_path)
             IN  \E env \in FileEnvs(inTree[file_path], output_path) :
                    /\ CallConvertFile(file_path, output_path, env)
                    /\ IF last'.ret
                       THEN success_count' = success_count + 1 /\ UNCHANGED failed_count
                       ELSE failed_count' = failed_count + 1 /\ UNCHANGED success_count
          /\ pending' = pending \ {file_path}
    /\ UNCHANGED <<pc, args, inTree, exitCode>>
    /\ IdleOthers

\* process_directory: rglob yields an entry that is filtered out
WalkSkip ==
    /\ pc = "walk"
    /\ \E file_path \in pending :
          /\ ~Matches(inTree[file_path], file_path)
          /\ pending' = pending \ {file_path}
    /\ UNCHANGED <<pc, args, inTree, outDirs, outFiles, success_count, failed_count,
                   exitCode, attempts, results, last>>
    /\ IdleOthers

\* process_directory returns; main exits on the tally
MainBatchFinish ==
    /\ pc = "walk"
    /\ pending = {}
    /\ Exit(BatchExit(failed_count))
    /\ UNCHANGED <<args, inTree, pending, outDirs, outFiles, success_count,
                   failed_count, attempts, results, last>>
    /\ IdleOthers

CliNext ==
    \/ MainNoKey
    \/ MainFileNotFound
    \/ MainSingleFile
    \/ MainInputNotFound
    \/ MainBatchStart
    \/ WalkConvert
    \/ WalkSkip
    \/ MainBatchFinish

Spec == CliInit /\ [][CliNext]_vars

----------------------------------------------------------------------------
(* Properties of the batch walker, convert_file and the command line *)

\* a regular file below the input root whose lower-cased suffix is supported
IsTarget(p) ==
    /\ p \in DOMAIN inTree
    /\ inTree[p] = "file"
    /\ Lower(p.suffix) \in document_formats \cup image_formats

Targets == {p \in TreePaths : IsTarget(p)}
Attempted == {p \in TreePaths : attempts[p] >= 1}

BatchMode == args.file = NoPath

\* main has exited after process_directory returned
BatchReturned ==
    pc = "done" /\ BatchMode /\ ~KeyMissing(ApiKey(args)) /\ args.input_exists

\* C1: in a batch run convert_file is called at most once per file and only
\* for regular files with a supported lower-cased suffix; the tally counts the
\* calls made, success_count those that returned True; when process_directory
\* has returned every such file has been attempted, whatever the others did.
C1_EveryMatchOnce ==
    BatchMode =>
        /\ \A p \in TreePaths : attempts[p] <= 1
        /\ Attempted \subseteq Targets
        /\ success_count + failed_count = Cardinality(Attempted)
        /\ success_count = Cardinality({p \in Attempted : results[p].ret})
        /\ (BatchReturned =>
              /\ Attempted = Targets
              /\ success_count + failed_count = Cardinality(Targets))

\* a batch that returned after one success, one failure and one skipped entry
C1_Witness ==
    /\ BatchReturned
    /\ success_count >= 1
    /\ failed_count >= 1
    /\ \E p \in DOMAIN inTree : ~IsTarget(p)
    /\ \E p \in Targets : p.suffix # Lower(p.suffix)

\* C2: after process_directory returned, the mirrored output file of every
\* input whose convert_file call returned True exists and holds the Markdown
\* produced for that input.
C2_OutputHoldsOwnMarkdown ==
    BatchReturned =>
        \A p \in Attempted :
            results[p].ret =>
                /\ MirrorPath(p) \in DOMAIN outFiles
                /\ outFiles[MirrorPath(p)] = results[p].md

\* what the environment did to the latest convert_file call
LastMkdirFailed == ~Mkdir(last.pre.dirs, Parent(last.output), last.env.failAt).ok
LastWriteFailed == last.env.write # "ok"

\* the output file of the latest call holds its Markdown below existing directories
LastWritten ==
    /\ \A i \in 1..Len(Parent(last.output)) : SubSeq(Parent(last.output), 1, i) \in outDirs
    /\ last.output \in DOMAIN outFiles
    /\ outFiles[last.output] = last.conv.md

\* C4: convert_file raises nothing; when it returns True the conversion
\* succeeded and the Markdown is in output_path below existing directories;
\* it returns False for a conversion error and for a failing mkdir or write,
\* and True when none of these happened.
C4_ConvertFileBoolean ==
    last.called =>
        /\ last.raised = None
        /\ (last.ret => last.conv.error = None /\ LastWritten)
        /\ (last.conv.error # None => ~last.ret)
        /\ (last.conv.error = None /\ (LastMkdirFailed \/ LastWriteFailed) => ~last.ret)
        /\ (last.conv.error = None /\ ~LastMkdirFailed /\ ~LastWriteFailed => last.ret)

\* a successful call that had to create the output root and a directory
\* below it, after which the new file holds a page
C4_Witness ==
    /\ last.called
    /\ last.ret
    /\ Len(Parent(last.output)) = 2
    /\ last.pre.dirs = {}
    /\ last.output \in DOMAIN outFiles
    /\ last.conv.md # EmptyText

C10_FailedConvertLeavesOutput ==
    last.called /\ last.conv.error # None =>
        /\ outDirs = last.pre.dirs
        /\ outFiles = last.pre.files

\* a conversion the service failed, whose output file existed before the
\* call and still holds its old text
C10_Witness ==
    /\ last.called
    /\ last.conv.error = "service_failed"
    /\ last.output \in DOMAIN last.pre.files
    /\ outFiles[last.output] = OldText

----------------------------------------------------------------------------
(* The converter called on its own *)

ConvertSuffixes ==
    document_formats \cup image_formats \cup {".PDF", ".PNG", ".Docx", ".JPG", ".txt", ".md", ""}

\* the command line's variables while no command line runs
CliIdle ==
    /\ args = [mistral_api_key |-> None, env_key |-> None, file |-> NoPath,
               input_exists |-> FALSE]
    /\ inTree = EmptyTree
    /\ pending = {}
    /\ outDirs = {}
    /\ outFiles = << >>
    /\ success_count = 0
    /\ failed_count = 0
    /\ exitCode = 0
    /\ attempts = [p \in TreePaths |-> 0]
    /\ results = [p \in TreePaths |-> NoResult]
    /\ last = NoCall

ConvertInit ==
    /\ pc = "library"
    /\ CliIdle
    /\ conv = NoConv
    /\ processor = NewProcessor("k")
    /\ envKey = "k"
    /\ tmpFiles = {}
    /\ nCalls = 0
    /\ call = NoToolCall

\* processor.convert_with_mistral_document_ai(path), on any file and with
\* any answer of the service (convert keeps no state: one call shows them all)
ConvertCall ==
    /\ ~conv.called
    /\ \E suffix \in ConvertSuffixes, readable \in BOOLEAN, resp \in Responses :
          LET path == MkPath(<<"d">>, "doc", suffix)
          IN  conv' = [called |-> TRUE, path |-> path, readable |-> readable,
                       resp |-> resp, out |-> Convert(processor, path, readable, resp)]
    /\ UNCHANGED cliVars
    /\ UNCHANGED toolVars

ConvertNext == ConvertCall

SpecConvert == ConvertInit /\ [][ConvertNext]_vars

----------------------------------------------------------------------------
(* The tool server *)

ToolInit ==
    /\ pc = "loaded"
    /\ CliIdle
    /\ conv = NoConv
    /\ processor = NoProcessor
    /\ envKey \in {None, "", "k"}
    /\ tmpFiles = {}
    /\ nCalls = 0
    /\ call = NoToolCall

\* mcp_server.main: initialize_processor at startup; sys.exit(1) if it raises
ServerStart ==
    /\ pc = "loaded"
    /\ nCalls = 0
    /\ LET init == InitializeProcessor(envKey)
       IN  IF init.raised # None
           THEN pc' = "exited" /\ UNCHANGED processor
           ELSE pc' = "serving" /\ processor' = init.processor
    /\ UNCHANGED <<envKey, tmpFiles, nCalls, call, conv>>
    /\ UNCHANGED <<args, inTree, pending, outDirs, outFiles, success_count,
                   failed_count, exitCode, attempts, results, last>>

\* one call_tool(name, arguments), from the server loop or from a host that
\* imported the module
CallTool ==
    /\ pc \in {"loaded", "serving"}
    /\ nCalls < MaxCalls
    /\ \E name \in ToolNames, env \in ToolEnvs :
         \E arguments \in (IF name = "process_document" THEN DocumentArguments
                           ELSE OtherArguments) :
            LET id == nCalls + 1
                r  == call_tool(processor, envKey, tmpFiles, id, name, arguments, env)
            IN  /\ processor' = r.processor
                /\ tmpFiles' = r.tmp
                /\ nCalls' = id
                /\ call' = [name |-> name, id |-> id, arguments |-> arguments,
                            env |-> env, before |-> processor, key |-> envKey,
                            inits |-> r.inits, raised |-> r.raised,
                            reply |-> r.blocks, ran |-> r.ran]
    /\ UNCHANGED <<pc, envKey, conv>>
    /\ UNCHANGED <<args, inTree, pending, outDirs, outFiles, success_count,
                   failed_count, exitCode, attempts, results, last>>

\* one processor.perform_ocr_with_mistral(image) on the global processor
CallPerformOcr ==
    /\ pc \in {"loaded", "serving"}
    /\ processor # NoProcessor
    /\ nCalls < MaxCalls
    /\ \E env \in ToolEnvs :
          LET id == nCalls + 1
              r  == PerformOcr(processor, tmpFiles, id, env)
          IN  /\ tmpFiles' = r.tmp
              /\ nCalls' = id
              /\ call' = [name |-> "perform_ocr_with_mistral", id |-> id,
                          arguments |-> NoArguments, env |-> env, before |-> processor,
                          key |-> envKey, inits |-> 0,
                          raised |-> None, reply |-> <<TextContent(r.text)>>, ran |-> TRUE]
    /\ UNCHANGED <<pc, processor, envKey, conv>>
    /\ UNCHANGED <<args, inTree, pending, outDirs, outFiles, success_count,
                   failed_count, exitCode, attempts, results, last>>

\* the host that imported the module sets or clears MISTRAL_API_KEY; each
\* initialize_processor reads the variable anew
SetEnvKey ==
    /\ pc = "loaded"
    /\ \E key \in {None, "", "k"} \ {envKey} : envKey' = key
    /\ UNCHANGED <<pc, processor, tmpFiles, nCalls, call, conv>>
    /\ UNCHANGED <<args, inTree, pending, outDirs, outFiles, success_count,
                   failed_count, exitCode, attempts, results, last>>

ToolNext ==
    \/ ServerStart
    \/ SetEnvKey
    \/ CallTool
    \/ CallPerformOcr

SpecTool == ToolInit /\ [][ToolNext]_vars

----------------------------------------------------------------------------
(* Properties of the converter *)

ConvSuffix == Lower(conv.path.suffix)
ConvIsDocument == ConvSuffix \in {".pdf", ".pptx", ".docx"}
ConvIsImage == ConvSuffix \in {".png", ".jpg", ".jpeg", ".gif", ".bmp", ".avif"}

\* convert on an unsupported suffix: the unsupported-format error, no
\* request, no read
ConvUnsupportedRefused ==
    conv.called /\ ~ConvIsDocument /\ ~ConvIsImage =>
        /\ conv.out.error = "unsupported_format"
        /\ conv.out.requests = << >>
        /\ conv.out.reads = 0

\* the one request of a call is of the shape its suffix asks for
ConvRequestShape ==
    /\ Len(conv.out.requests) = 1
    /\ (ConvIsDocument => conv.out.requests[1].type = "document_url")
    /\ (ConvIsImage => conv.out.requests[1].type = "image_base64")

\* C7 as stated: an unsupported suffix is refused without request or read,
\* and a supported suffix issues exactly one request of its shape.
C7_AlwaysOneRequest ==
    /\ ConvUnsupportedRefused
    /\ (conv.called /\ (ConvIsDocument \/ ConvIsImage) => ConvRequestShape)

\* C7, amended: an unsupported suffix is refused without request or read; a
\* supported suffix issues at most one request: exactly one, of its shape,
\* when the file can be read, and none when reading the file fails.
C7_OneRequestWhenRead ==
    /\ ConvUnsupportedRefused
    /\ (conv.called /\ (ConvIsDocument \/ ConvIsImage) =>
          /\ Len(conv.out.requests) <= 1
          /\ (conv.readable => ConvRequestShape)
          /\ (~conv.readable => conv.out.requests = << >> /\ conv.out.error = "read_failed"))

\* a document with an upper-case suffix that was read and sent once
C7_Witness ==
    /\ conv.called
    /\ conv.path.suffix = ".Docx"
    /\ conv.readable
    /\ Len(conv.out.requests) = 1
    /\ conv.out.requests[1].type = "document_url"

\* C8: for a document, the result is, page by page in response order, the
\* marker of index + 1, a newline and the fragment, consecutive pages two
\* newlines apart, nothing before, after or else between; no page gives the
\* empty string.
C8_PagesInResponseOrder ==
    conv.called /\ ConvIsDocument /\ conv.out.error = None =>
        LET pages == conv.resp.pages
            n     == Len(pages)
            md    == conv.out.md
        IN  /\ (n = 0 => md = << >>)
            /\ (n > 0 => Len(md) = 5 * n - 2)
            /\ \A i \in 1..n :
                  /\ md[5 * (i - 1) + 1] = Marker(pages[i].index + 1)
                  /\ md[5 * (i - 1) + 2] = NL
                  /\ md[5 * (i - 1) + 3] = Md(pages[i].markdown)
            /\ \A i \in 1..(n - 1) :
                  /\ md[5 * i - 1] = NL
                  /\ md[5 * i] = NL

\* a document answered with two pages, the later index first
C8_Witness ==
    /\ conv.called
    /\ ConvIsDocument
    /\ conv.out.error = None
    /\ Len(conv.resp.pages) = 2
    /\ conv.resp.pages[1].index > conv.resp.pages[2].index
    /\ Len(conv.out.md) = 8

----------------------------------------------------------------------------
(* Properties of the tool front-end *)

IsToolCall == call.name \in ToolNames

\* C3: no temporary file created by an operation is on disk once the
\* operation has returned, whether it succeeded or failed.
C3_NoTempFileLeft ==
    call.name # None => \A t \in tmpFiles : t.id # call.id

ErrorPrefixes ==
    {Lit("Error initializing processor: "), Lit("Error: "), Lit("Unknown tool: "),
     Lit("File not found: "), FailedPrefix,
     Lit("Either file_path or (base64_content + file_name) is required")}

\* the error cases of a call, read off its inputs
CallMissingCredential == call.before = NoProcessor /\ ~Truthy(call.key)
CallUnknownTool == call.name = "no_such_tool"
CallByPath == Truthy(call.arguments.file_path)
CallByContent ==
    ~CallByPath /\ Truthy(call.arguments.base64_content) /\ Truthy(call.arguments.file_name)
CallFileMissing == CallByPath /\ call.arguments.file_path \notin ExistingFiles
CallUnsupported ==
    \/ CallByPath /\ call.arguments.file_path = "/d/notes.txt"
    \/ CallByContent /\ call.arguments.file_name = "scan.txt"
CallBadBase64 == CallByContent /\ call.arguments.base64_content = InvalidBase64
CallNoArguments == ~CallByPath /\ ~CallByContent
\* staging (for inlined content), reading or the service failed
CallConversionError ==
    \/ CallByContent /\ (~call.env.tmp_created \/ ~call.env.tmp_written)
    \/ ~call.env.readable
    \/ ~call.env.resp.ok

CallIsError ==
    \/ CallMissingCredential
    \/ CallUnknownTool
    \/ /\ call.name = "process_document"
       /\ \/ CallFileMissing
          \/ CallUnsupported
          \/ CallBadBase64
          \/ CallNoArguments
          \/ (CallByPath \/ CallByContent) /\ CallConversionError

\* C6: call_tool raises nothing and returns one text block, for every tool
\* name, argument combination and processor state; in each error case the
\* block is an error message, not a converted document.
C6_AlwaysOneTextBlock ==
    IsToolCall =>
        /\ call.raised = None
        /\ Len(call.reply) = 1
        /\ call.reply[1].type = "text"
        /\ call.reply[1].text # << >>
        /\ (CallIsError => call.reply[1].text[1] \in ErrorPrefixes)

\* a call whose handler raised: file_path of the wrong type
C6_Witness ==
    /\ IsToolCall
    /\ call.name = "process_document"
    /\ call.arguments.file_path = NonString
    /\ call.ran
    /\ call.reply[1].text[1] = Lit("Error: ")

FormatsReply == <<TextContent(formats_info)>>

\* C9 as stated: every get_supported_formats call returns the one block of
\* the formats text, whatever the processor and the credential.
C9_AlwaysFormats ==
    call.name = "get_supported_formats" => call.reply = FormatsReply

\* C9, amended: a get_supported_formats call returns the one block of the
\* formats text, whatever its arguments and the calls before it, whenever
\* the processor is set or can be initialised from the credential; otherwise
\* it returns the one block of the initialisation error.
C9_FormatsOnceInitialised ==
    call.name = "get_supported_formats" =>
        /\ (~CallMissingCredential => call.reply = FormatsReply)
        /\ (CallMissingCredential =>
              /\ Len(call.reply) = 1
              /\ call.reply[1].text[1] = Lit("Error initializing processor: "))

\* a formats call with arguments, after a call that left a temporary file
C9_Witness ==
    /\ call.name = "get_supported_formats"
    /\ call.arguments # NoArguments
    /\ tmpFiles # {}
    /\ call.reply = FormatsReply

----------------------------------------------------------------------------
(* The global processor over a sequence of calls *)

InitErrorReply(reply) ==
    /\ Len(reply) = 1
    /\ reply[1].type = "text"
    /\ reply[1].text[1] = Lit("Error initializing processor: ")

\* what every call_tool leaves behind
C11_CallKeepsProcessor ==
    IsToolCall =>
        /\ (call.ran => processor # NoProcessor)
        /\ (call.before = NoProcessor => call.inits = 1)
        /\ (call.before = NoProcessor /\ ~Truthy(call.key) =>
              /\ ~call.ran
              /\ processor = NoProcessor
              /\ InitErrorReply(call.reply))
        /\ (call.before = NoProcessor /\ Truthy(call.key) => call.ran)
        /\ (call.before # NoProcessor => call.inits = 0 /\ processor = call.before)

\* C11: a handler runs only with the global processor set; a call that finds
\* it unset first attempts initialize_processor and, if that fails, returns
\* the error block without running a handler and leaves the processor unset,
\* so the next call attempts it again; once set, the processor is never
\* replaced or reset by a later step.
C11_ProcessorSetOnce ==
    /\ []C11_CallKeepsProcessor
    /\ [][processor # NoProcessor => processor' = processor]_vars

\* a second call that found the processor still unset after a failed first
\* call, initialised it and ran its handler
C11_Witness ==
    /\ IsToolCall
    /\ nCalls >= 2
    /\ call.before = NoProcessor
    /\ call.inits = 1
    /\ call.ran
    /\ processor # NoProcessor

====
